---- MODULE Spec2Model ----
(***************************************************************************)
(* Campaign dispatch and delivery-state reconciliation of SmartZap.        *)
(*                                                                         *)
(* Two programs share the database tables `campaigns` and                  *)
(* `campaign_contacts`:                                                    *)
(*   - the campaign workflow (src/unnamed/part_008, serve(...)): the steps *)
(*     init-campaign, send-batch-<k> and complete-campaign, run by a       *)
(*     durable step runner that executes every step at least once;         *)
(*   - the webhook POST handler (src/unnamed/part_009): one invocation per *)
(*     delivery receipt, any number of them running concurrently.          *)
(* Every `await` on the database or on the messaging API is one atomic     *)
(* step of the model; what a handler holds between two awaits lives in its *)
(* local variables (wf, hpc/hev/hphone/hcnt).  The database itself is      *)
(* taken to answer every query (no transport errors).                      *)
(*                                                                         *)
(* The key-value store helpers of src/lib/data/campaigns.ts (send-slot     *)
(* rate limit, 24 h customer service window) keep their keys in `redis`    *)
(* and are driven by the callers of the messaging code (cpc/cpair).        *)
(***************************************************************************)
EXTENDS Integers, Sequences, FiniteSets, TLC

(* ---------------------------- bounds ----------------------------------- *)
NumContacts == 3        \* recipients of the campaign
NumHandlers == 2        \* webhook invocations in one behaviour
NumWfHandlers == 1      \* of them, invocations while the workflow runs
MaxRuns == 2            \* invocations of the workflow (start + one resume)
MaxStepRetries == 1     \* re-executions of send-batch steps by the runner
MaxMsg == 4              \* message ids the provider hands out (more than recipients)
NumCallers == 2         \* concurrent callers of the key-value store helpers
NumPeers == 2           \* recipients the callers of the helpers talk to
MaxTicks == 3           \* advances of the clock in one behaviour
MaxList == 85           \* longest recipient list that is only partitioned

(* --------------------------- constants --------------------------------- *)
\* part_008:255 has BATCH_SIZE = 40; the model keeps the partition code and
\* scales the size so that a campaign of NumContacts has a full batch and a
\* remainder batch.
BATCH_SIZE == 2

NULL == 0               \* SQL NULL / JS null for ids and timestamps

Contacts == 1..NumContacts
Handlers == 1..NumHandlers
ForeignMsg == MaxMsg + 1        \* an id no campaign message ever gets

ContactStatus == {"pending", "sent", "delivered", "read", "failed"}
ReceiptStatus == {"sent", "delivered", "read", "failed"}
CampaignStatus == {"Draft", "Scheduled", "Sending", "Paused", "Completed", "Failed"}

VARIABLES
    campaign,   \* the row of table campaigns
    cc,         \* table campaign_contacts: one row per recipient
    alerts,     \* table account_alerts: the set of its rows
    wf,         \* the workflow invocation: position and step-local values
    runs,       \* workflow invocations so far (also the coarse clock)
    nextMsg,    \* next message id of the provider
    hpc,        \* webhook invocation h: position
    hev,        \* webhook invocation h: the request body and its statusUpdate
    hresp,      \* webhook invocation h: HTTP status of the response (0: none yet)
    hphone,     \* webhook invocation h: contactInfo.phone
    hcnt,       \* webhook invocation h: counter value read before the increment
    redisClient,\* TRUE when the key-value store is configured (else null)
    redis,      \* key-value store: key -> time its entry expires (0: no entry)
    now,        \* wall clock, seconds
    ticks,      \* advances of the clock so far
    cpc,        \* store caller p: position
    cpair,      \* store caller p: the recipient it was allowed to send to
    opened      \* history: time of the latest setCSW call per recipient (-1: none)

vars == <<campaign, cc, alerts, wf, runs, nextMsg, hpc, hev, hresp, hphone, hcnt,
          redisClient, redis, now, ticks, cpc, cpair, opened>>
wvars == <<wf, runs, nextMsg>>
hvars == <<hpc, hev, hresp, hphone, hcnt>>
svars == <<redisClient, redis, now, ticks, cpc, cpair, opened>>

(* ------------------------ campaign workflow ---------------------------- *)

\* context.requestPayload.contacts: the ordered recipient list of the
\* campaign, one row of campaign_contacts each (possibly empty)
contacts == [i \in 1..campaign.recipients |-> i]

Min(a, b) == IF a < b THEN a ELSE b

\* variant: the slices that are not full are left out
partition_dropsRemainder(list, size) ==
    LET n == Len(list) \div size
    IN  [k \in 1..n |-> SubSeq(list, (k - 1) * size + 1,
                                     Min(k * size, Len(list)))]

\* for (i = 0; i < list.length; i += size) batches.push(list.slice(i, i + size))
partition(list, size) ==
    LET n == (Len(list) + size - 1) \div size
    IN  [k \in 1..n |-> SubSeq(list, (k - 1) * size + 1,
                                     Min(k * size, Len(list)))]

\* the batches of the run
batches == partition(contacts, BATCH_SIZE)

\* no campaign read yet
NoSnap == [status |-> "Draft", recipients |-> 0, sent |-> 0, delivered |-> 0,
           read |-> 0, failed |-> 0, startedAt |-> NULL, completedAt |-> NULL]

WfIdle == [pc |-> "idle", batchIndex |-> 0, idx |-> 0, sentCount |-> 0,
           failedCount |-> 0, outcome |-> "none", resp |-> NULL,
           snap |-> NoSnap, retries |-> 0, sawPaused |-> FALSE]

\* the current contact of the send loop
CurContact == batches[wf.batchIndex][wf.idx]

\* campaignDb.updateStatus(id, fields): writes the given columns only
updateStatus(row, fields) ==
    [f \in DOMAIN row |-> IF f \in DOMAIN fields THEN fields[f] ELSE row[f]]

\* updateContactStatus(campaignId, phone, status, messageId): unconditional
\* update of the row (campaign_id, phone)
updateContactStatus(table, phone, status, messageId) ==
    [table EXCEPT ![phone] = [status |-> status, message_id |-> messageId]]

\* the trigger of the workflow (dispatch or resume)
Run ==
    /\ wf.pc = "idle"
    /\ runs < MaxRuns
    /\ runs' = runs + 1
    /\ wf' = [WfIdle EXCEPT !.pc = "init"]
    /\ UNCHANGED <<campaign, cc, nextMsg>>
    /\ UNCHANGED <<hvars, svars, alerts>>

\* step init-campaign
InitCampaign ==
    /\ wf.pc = "init"
    /\ campaign' = updateStatus(campaign, [status |-> "Sending", startedAt |-> runs])
    /\ wf' = IF Len(batches) > 0
             THEN [wf EXCEPT !.pc = "check", !.batchIndex = 1, !.idx = 1]
             ELSE [wf EXCEPT !.pc = "getFinal"]
    /\ UNCHANGED <<cc, runs, nextMsg>>
    /\ UNCHANGED <<hvars, svars, alerts>>

\* variant: the status is read before the first recipient of a batch only
CheckPaused_betweenBatches ==
    /\ wf.pc = "check"
    /\ wf' = IF campaign.status = "Paused" /\ wf.idx = 1
             THEN [wf EXCEPT !.pc = "getStats", !.sawPaused = TRUE]
             ELSE [wf EXCEPT !.pc = "send"]
    /\ UNCHANGED <<campaign, cc, runs, nextMsg>>
    /\ UNCHANGED <<hvars, svars, alerts>>

\* send-batch: select status of the campaign, break when paused
CheckPaused ==
    /\ wf.pc = "check"
    /\ wf' = IF campaign.status = "Paused"
             THEN [wf EXCEPT !.pc = "getStats", !.sawPaused = TRUE]
             ELSE [wf EXCEPT !.pc = "send"]
    /\ UNCHANGED <<campaign, cc, runs, nextMsg>>
    /\ UNCHANGED <<hvars, svars, alerts>>

\* send-batch: fetch(.../messages); the provider accepts (new message id),
\* rejects (response without id) or the call throws
SendMessage ==
    /\ wf.pc = "send"
    /\ \E r \in {"ok", "rejected", "threw"} :
         /\ r = "ok" => nextMsg <= MaxMsg
         /\ wf' = [wf EXCEPT !.pc = "store", !.outcome = r,
                             !.resp = IF r = "ok" THEN nextMsg ELSE NULL]
         /\ nextMsg' = IF r = "ok" THEN nextMsg + 1 ELSE nextMsg
    /\ UNCHANGED <<campaign, cc, runs>>
    /\ UNCHANGED <<hvars, svars, alerts>>

\* end of one iteration of `for (const contact of batch)`
NextContact(w) ==
    IF w.idx < Len(batches[w.batchIndex])
    THEN [w EXCEPT !.pc = "check", !.idx = w.idx + 1, !.outcome = "none",
                   !.resp = NULL]
    ELSE [w EXCEPT !.pc = "getStats", !.outcome = "none", !.resp = NULL]

\* variant: a failed send is attempted again for the same recipient
StoreResult_retriesFailure ==
    /\ wf.pc = "store"
    /\ IF wf.outcome = "ok"
       THEN /\ cc' = updateContactStatus(cc, CurContact, "sent", wf.resp)
            /\ wf' = NextContact([wf EXCEPT !.sentCount = wf.sentCount + 1])
       ELSE /\ cc' = updateContactStatus(cc, CurContact, "failed", NULL)
            /\ wf' = [wf EXCEPT !.pc = "check", !.outcome = "none",
                                !.resp = NULL,
                                !.failedCount = wf.failedCount + 1]
    /\ UNCHANGED <<campaign, runs, nextMsg>>
    /\ UNCHANGED <<hvars, svars, alerts>>

\* send-batch: updateContactStatus and the count of the outcome
StoreResult ==
    /\ wf.pc = "store"
    /\ IF wf.outcome = "ok"
       THEN /\ cc' = updateContactStatus(cc, CurContact, "sent", wf.resp)
            /\ wf' = NextContact([wf EXCEPT !.sentCount = wf.sentCount + 1])
       ELSE /\ cc' = updateContactStatus(cc, CurContact, "failed", NULL)
            /\ wf' = NextContact([wf EXCEPT !.failedCount = wf.failedCount + 1])
    /\ UNCHANGED <<campaign, runs, nextMsg>>
    /\ UNCHANGED <<hvars, svars, alerts>>

\* send-batch: campaignDb.getById before the counter update
GetStats ==
    /\ wf.pc = "getStats"
    /\ wf' = [wf EXCEPT !.pc = "putStats", !.snap = campaign]
    /\ UNCHANGED <<campaign, cc, runs, nextMsg>>
    /\ UNCHANGED <<hvars, svars, alerts>>

\* the step after send-batch-<batchIndex>
AfterBatch(w) ==
    IF w.batchIndex < Len(batches)
    THEN [w EXCEPT !.pc = "check", !.batchIndex = w.batchIndex + 1, !.idx = 1,
                   !.sentCount = 0, !.failedCount = 0, !.snap = NoSnap]
    ELSE [w EXCEPT !.pc = "getFinal", !.sentCount = 0, !.failedCount = 0,
                   !.snap = NoSnap]

\* send-batch: campaignDb.updateStatus({sent, failed}) from the values read
PutStats ==
    /\ wf.pc = "putStats"
    /\ campaign' = updateStatus(campaign,
                       [sent |-> wf.snap.sent + wf.sentCount,
                        failed |-> wf.snap.failed + wf.failedCount])
    /\ wf' = AfterBatch(wf)
    /\ UNCHANGED <<cc, runs, nextMsg>>
    /\ UNCHANGED <<hvars, svars, alerts>>

\* the step runner executes a send-batch step again from its start (the step
\* did not report completion in time); step-local counts start from 0
RetryBatch ==
    /\ wf.pc \in {"check", "send", "store", "getStats", "putStats"}
    /\ wf.retries < MaxStepRetries
    /\ wf' = [wf EXCEPT !.pc = "check", !.idx = 1, !.sentCount = 0,
                        !.failedCount = 0, !.outcome = "none", !.resp = NULL,
                        !.snap = NoSnap,
                        !.retries = wf.retries + 1]
    /\ UNCHANGED <<campaign, cc, runs, nextMsg>>
    /\ UNCHANGED <<hvars, svars, alerts>>

\* step complete-campaign: campaignDb.getById
GetFinal ==
    /\ wf.pc = "getFinal"
    /\ wf' = [wf EXCEPT !.pc = "putFinal", !.snap = campaign]
    /\ UNCHANGED <<campaign, cc, runs, nextMsg>>
    /\ UNCHANGED <<hvars, svars, alerts>>

\* variant: any failed recipient fails the campaign
finalStatus_anyFailure(c) ==
    IF c.failed > 0 THEN "Failed" ELSE "Completed"

\* finalStatus of step complete-campaign, from the campaign it read
finalStatus(c) ==
    IF c.failed = c.recipients /\ c.recipients > 0 THEN "Failed" ELSE "Completed"

\* step complete-campaign: campaignDb.updateStatus({status, completedAt})
PutFinal ==
    /\ wf.pc = "putFinal"
    /\ campaign' = updateStatus(campaign,
                       [status |-> finalStatus(wf.snap), completedAt |-> runs])
    /\ wf' = WfIdle
    /\ UNCHANGED <<cc, runs, nextMsg>>
    /\ UNCHANGED <<hvars, svars, alerts>>

\* the dashboard pauses a campaign that is being sent
Pause ==
    /\ campaign.status = "Sending"
    /\ campaign' = updateStatus(campaign, [status |-> "Paused"])
    /\ UNCHANGED <<cc, wf, runs, nextMsg>>
    /\ UNCHANGED <<hvars, svars, alerts>>

(* --------------------------- webhook POST ------------------------------ *)

\* .from('campaign_contacts').select(...).eq('message_id', id).single():
\* the row when exactly one row matches, no data otherwise
MatchingRows(table, id) == {c \in DOMAIN table : table[c].message_id = id}

single(rows) == IF Cardinality(rows) = 1 THEN CHOOSE c \in rows : TRUE ELSE NULL

\* variant: failed ranked below every other status
statusOrder_failedLowest(s) ==
    CASE s = "pending" -> 0
      [] s = "sent" -> 1
      [] s = "delivered" -> 2
      [] s = "read" -> 3
      [] s = "failed" -> 0
      [] OTHER -> 0

\* const statusOrder = { pending: 0, sent: 1, delivered: 2, read: 3, failed: 4 }
statusOrder(s) ==
    CASE s = "pending" -> 0
      [] s = "sent" -> 1
      [] s = "delivered" -> 2
      [] s = "read" -> 3
      [] s = "failed" -> 4
      [] OTHER -> 0

\* variant: a read receipt is also skipped while the record is not delivered
skipUpdate_readNeedsDelivered(current, msgStatus) ==
    \/ statusOrder(msgStatus) <= statusOrder(current) /\ msgStatus # "failed"
    \/ msgStatus = "read" /\ current # "delivered"

\* if (newOrder <= currentOrder && msgStatus !== 'failed') continue
skipUpdate(current, msgStatus) ==
    statusOrder(msgStatus) <= statusOrder(current) /\ msgStatus # "failed"

\* variant: the failed update without .neq('status', 'failed')
updateFilter_failedUnguarded(msgStatus, stored) ==
    CASE msgStatus = "delivered" -> stored # "delivered" /\ stored # "read"
      [] msgStatus = "read" -> stored # "read"
      [] msgStatus = "failed" -> TRUE
      [] OTHER -> FALSE

\* variant: the delivered update without .neq('status', 'read')
updateFilter_deliveredOverRead(msgStatus, stored) ==
    CASE msgStatus = "delivered" -> stored # "delivered"
      [] msgStatus = "read" -> stored # "read"
      [] msgStatus = "failed" -> stored # "failed"
      [] OTHER -> FALSE

\* variant: the delivered update without .neq('status', 'delivered')
updateFilter_deliveredTwice(msgStatus, stored) ==
    CASE msgStatus = "delivered" -> stored # "read"
      [] msgStatus = "read" -> stored # "read"
      [] msgStatus = "failed" -> stored # "failed"
      [] OTHER -> FALSE

\* errors?.[0]?.code || 0 when the receipt carries no error code
NoCode == 0

\* error 131042: payment issue of the account
PaymentError == 131042

\* isCriticalError(code): payment and authorization errors
CriticalCodes == {PaymentError}

isCriticalError(code) == code \in CriticalCodes

\* mapWhatsAppError(code).category
category(code) == IF code = PaymentError THEN "payment" ELSE "unknown"

\* .from('account_alerts').upsert(row): the row replaces the columns it gives
\* of the row with the same id, or is inserted
upsert(table, row) ==
    IF \E a \in table : a.id = row.id
    THEN {IF a.id = row.id THEN [row EXCEPT !.dismissed = a.dismissed] ELSE a :
             a \in table}
    ELSE table \cup {row}

\* id: `alert_${errorCode}_${Date.now()}`, type, code; dismissed by default
\* FALSE
alertRow(code, t) ==
    [id |-> <<"alert", code, t>>, type |-> category(code), code |-> code,
     dismissed |-> FALSE]

\* .update({ dismissed: 1 }).eq('type', 'payment').eq('dismissed', false)
dismissPayment(table) ==
    {IF a.type = "payment" /\ ~a.dismissed THEN [a EXCEPT !.dismissed = TRUE] ELSE a :
        a \in table}

\* variant: nothing follows the counter increment of a delivered receipt
afterCounter_noDismiss(ev) ==
    IF ev.status = "failed" /\ isCriticalError(ev.code) THEN "alert"
    ELSE "done"

\* what follows the counter increment of a receipt
afterCounter(ev) ==
    IF ev.status = "delivered" THEN "dismiss"
    ELSE IF ev.status = "failed" /\ isCriticalError(ev.code) THEN "alert"
    ELSE "done"

\* what follows a conditional update that changed no row
afterNoRows(ev) ==
    IF ev.status = "failed" /\ isCriticalError(ev.code) THEN "alert" ELSE "done"

\* the .neq('status', ...) filters of the three conditional updates
updateFilter(msgStatus, stored) ==
    CASE msgStatus = "delivered" -> stored # "delivered" /\ stored # "read"
      [] msgStatus = "read" -> stored # "read"
      [] msgStatus = "failed" -> stored # "failed"
      [] OTHER -> FALSE

\* .update({ status: msgStatus, ... }).eq('campaign_id').eq('phone').neq(...)
\* the table after the update; the row keeps its message_id
conditionalUpdate(table, phone, msgStatus) ==
    IF updateFilter(msgStatus, table[phone].status)
    THEN [table EXCEPT ![phone].status = msgStatus]
    ELSE table

\* variant: a delivery is counted in the column of the sender
counterOf_sentForDelivered(msgStatus) ==
    IF msgStatus = "delivered" THEN "sent" ELSE msgStatus

\* the column of campaigns a receipt status counts in
counterOf(msgStatus) == msgStatus

\* .update({ <counter>: (campaign.<counter> || 0) + 1 })
incrementCounter(row, msgStatus, readValue) ==
    [row EXCEPT ![counterOf(msgStatus)] = readValue + 1]

\* return NextResponse.json({ status: 'ok' }) and the 'ignored' return: the
\* response once the invocation is at its end
respond(resp, h, pc) == IF pc = "done" THEN [resp EXCEPT ![h] = 200] ELSE resp

\* the provider posts one statusUpdate to the webhook; invocations are
\* numbered in the order of their arrival.  errors?.[0]?.code || 0 of the
\* statusUpdate is taken from codes.
ReceiveWith(h, statuses, codes) ==
    /\ hpc[h] = "idle"
    /\ \A g \in 1..(h - 1) : hpc[g] # "idle"
    /\ \E id \in (1..(nextMsg - 1)) \cup {ForeignMsg}, s \in statuses, e \in codes :
         hev' = [hev EXCEPT ![h] =
                    [body |-> "statuses", id |-> id, status |-> s, code |-> e,
                     from |-> NULL]]
    /\ hpc' = [hpc EXCEPT ![h] = "lookup"]
    /\ UNCHANGED <<campaign, cc, hresp, hphone, hcnt>>
    /\ UNCHANGED <<wvars, svars, alerts>>

\* a receipt without an error code of the critical category
Receive(h) == ReceiveWith(h, ReceiptStatus, {NoCode})

\* a failed receipt with an error code of the critical category
ReceiveCritical(h) == ReceiveWith(h, {"failed"}, CriticalCodes)

\* request bodies that carry no statusUpdate:
\*   "invalid"  not JSON: request.json() rejects, outside the try block
\*   "null"     the JSON value null: body.object throws, outside the try block
\*   "other"    any other JSON whose object is not 'whatsapp_business_account'
\*   "empty"    a whatsapp_business_account body with nothing to iterate, or
\*              with entries of a wrong shape (an exception inside the try)
\* An exception that leaves POST is answered with status 500.
OtherBodies == {"invalid", "null", "other", "empty"}

bodyResponse(body) == IF body \in {"invalid", "null"} THEN 500 ELSE 200

ReceiveOther(h) ==
    /\ hpc[h] = "idle"
    /\ \A g \in 1..(h - 1) : hpc[g] # "idle"
    /\ \E b \in OtherBodies :
         /\ hev' = [hev EXCEPT ![h] = [body |-> b, id |-> NULL, status |-> "sent",
                                       code |-> NoCode, from |-> NULL]]
         /\ hresp' = [hresp EXCEPT ![h] = bodyResponse(b)]
    /\ hpc' = [hpc EXCEPT ![h] = "done"]
    /\ UNCHANGED <<campaign, cc, hphone, hcnt>>
    /\ UNCHANGED <<wvars, svars, alerts>>

\* variant: a statusUpdate that matches no row goes on to the contactInfo query
Lookup_keepsForeign(h) ==
    /\ hpc[h] = "lookup"
    /\ LET existingUpdate == single(MatchingRows(cc, hev[h].id))
       IN  hpc' = [hpc EXCEPT ![h] =
                     IF existingUpdate = NULL THEN "contactInfo"
                     ELSE IF skipUpdate(cc[existingUpdate].status, hev[h].status)
                          THEN "done"
                          ELSE "contactInfo"]
    /\ hresp' = respond(hresp, h, hpc'[h])
    /\ UNCHANGED <<campaign, cc, hev, hphone, hcnt>>
    /\ UNCHANGED <<wvars, svars, alerts>>

\* existingUpdate lookup and the status progression guard
Lookup(h) ==
    /\ hpc[h] = "lookup"
    /\ LET existingUpdate == single(MatchingRows(cc, hev[h].id))
       IN  hpc' = [hpc EXCEPT ![h] =
                     IF existingUpdate = NULL THEN "done"
                     ELSE IF skipUpdate(cc[existingUpdate].status, hev[h].status)
                          THEN "done"
                          ELSE "contactInfo"]
    /\ hresp' = respond(hresp, h, hpc'[h])
    /\ UNCHANGED <<campaign, cc, hev, hphone, hcnt>>
    /\ UNCHANGED <<wvars, svars, alerts>>

\* contactInfo lookup and the switch on msgStatus ('sent' only logs)
ContactInfo(h) ==
    /\ hpc[h] = "contactInfo"
    /\ LET contactInfo == single(MatchingRows(cc, hev[h].id))
           stop == contactInfo = NULL \/ hev[h].status = "sent"
       IN  /\ hphone' = [hphone EXCEPT ![h] = IF stop THEN NULL ELSE contactInfo]
           /\ hpc' = [hpc EXCEPT ![h] = IF stop THEN "done" ELSE "update"]
    /\ hresp' = respond(hresp, h, hpc'[h])
    /\ UNCHANGED <<campaign, cc, hev, hcnt>>
    /\ UNCHANGED <<wvars, svars, alerts>>

\* the conditional update of the contact row; updatedRows.length > 0 decides
\* whether the counter is incremented
UpdateContact(h) ==
    /\ hpc[h] = "update"
    /\ cc' = conditionalUpdate(cc, hphone[h], hev[h].status)
    /\ hpc' = [hpc EXCEPT ![h] =
                 IF updateFilter(hev[h].status, cc[hphone[h]].status)
                 THEN "selectCounter" ELSE afterNoRows(hev[h])]
    /\ hphone' = [hphone EXCEPT ![h] = NULL]
    /\ hresp' = respond(hresp, h, hpc'[h])
    /\ UNCHANGED <<campaign, hev, hcnt>>
    /\ UNCHANGED <<wvars, svars, alerts>>

\* Read-Modify-Write of the counter: the select
SelectCounter(h) ==
    /\ hpc[h] = "selectCounter"
    /\ hcnt' = [hcnt EXCEPT ![h] = campaign[counterOf(hev[h].status)]]
    /\ hpc' = [hpc EXCEPT ![h] = "updateCounter"]
    /\ UNCHANGED <<campaign, cc, hev, hresp, hphone>>
    /\ UNCHANGED <<wvars, svars, alerts>>

\* Read-Modify-Write of the counter: the update
UpdateCounter(h) ==
    /\ hpc[h] = "updateCounter"
    /\ campaign' = incrementCounter(campaign, hev[h].status, hcnt[h])
    /\ hpc' = [hpc EXCEPT ![h] = afterCounter(hev[h])]
    /\ hcnt' = [hcnt EXCEPT ![h] = 0]
    /\ hresp' = respond(hresp, h, hpc'[h])
    /\ UNCHANGED <<cc, hev, hphone>>
    /\ UNCHANGED <<wvars, svars, alerts>>

\* delivered: auto-dismiss of the payment alerts after the counter increment
DismissAlerts(h) ==
    /\ hpc[h] = "dismiss"
    /\ alerts' = dismissPayment(alerts)
    /\ hpc' = [hpc EXCEPT ![h] = "done"]
    /\ hresp' = respond(hresp, h, hpc'[h])
    /\ UNCHANGED <<campaign, cc, hev, hphone, hcnt>>
    /\ UNCHANGED <<wvars, svars>>

\* failed with a critical error code: the account alert
UpsertAlert(h) ==
    /\ hpc[h] = "alert"
    /\ alerts' = upsert(alerts, alertRow(hev[h].code, now))
    /\ hpc' = [hpc EXCEPT ![h] = "done"]
    /\ hresp' = respond(hresp, h, hpc'[h])
    /\ UNCHANGED <<campaign, cc, hev, hphone, hcnt>>
    /\ UNCHANGED <<wvars, svars>>

\* the steps of an invocation whose receipt has no critical error code
HandlerStep(h) ==
    \/ Lookup(h)
    \/ ContactInfo(h)
    \/ UpdateContact(h)
    \/ SelectCounter(h)
    \/ UpdateCounter(h)
    \/ DismissAlerts(h)

\* One statusUpdate processed by POST with no other database client in
\* between: the body of `for (const statusUpdate of statuses)` from the lookup
\* to the counter update, on the database d = [cc, campaign].
applyStatusUpdate(d, ev) ==
    LET existingUpdate == single(MatchingRows(d.cc, ev.id))
    IN  IF existingUpdate = NULL THEN d
        ELSE IF skipUpdate(d.cc[existingUpdate].status, ev.status) THEN d
        ELSE IF ev.status = "sent" THEN d
        ELSE IF updateFilter(ev.status, d.cc[existingUpdate].status)
             THEN [cc |-> conditionalUpdate(d.cc, existingUpdate, ev.status),
                   campaign |-> incrementCounter(d.campaign, ev.status,
                                    d.campaign[counterOf(ev.status)])]
             ELSE d

(* ------------------------- key-value store ----------------------------- *)

RATE_LIMIT_EX == 5      \* redis.set(key, '1', { ex: 5 })
CSW_EX == 86400         \* redis.set(key, now, { ex: 86400 })

\* one sender (phoneNumberId of the settings); a recipient phone per contact
Phones == Contacts

\* `ratelimit:${phoneNumberId}:${recipientPhone}`
RateKey(phone) == <<"ratelimit", phone>>

\* `csw:${phoneNumberId}:${recipientPhone}`
CSWKey(phone) == <<"csw", phone>>

Callers == 1..NumCallers

\* the recipients of the store callers
Peers == {phone \in Phones : phone <= NumPeers}

Keys == {RateKey(p) : p \in Phones} \cup {CSWKey(p) : p \in Phones}

NoKeys == [k \in Keys |-> 0]

\* redis.exists(key): 1 while the entry has not expired, 0 otherwise
exists(store, t, key) == IF store[key] > t THEN 1 ELSE 0

\* redis.set(key, value, { ex }): the entry lives for ex seconds from t
set(store, t, key, ex) == [store EXCEPT ![key] = t + ex]

\* checkPairRateLimit(phoneNumberId, recipientPhone)
checkPairRateLimit(client, store, t, phone) ==
    IF ~client THEN TRUE
    ELSE exists(store, t, RateKey(phone)) = 0

\* variant: the cooldown entry is written without a look at the client
setPairRateLimit_noGuard(client, store, t, phone) ==
    set(store, t, RateKey(phone), RATE_LIMIT_EX)

\* setPairRateLimit(phoneNumberId, recipientPhone): the store afterwards
setPairRateLimit(client, store, t, phone) ==
    IF ~client THEN store
    ELSE set(store, t, RateKey(phone), RATE_LIMIT_EX)

\* checkCSW(phoneNumberId, recipientPhone)
checkCSW(client, store, t, phone) ==
    IF ~client THEN FALSE
    ELSE exists(store, t, CSWKey(phone)) = 1

\* variant: the window entry set with the lifetime of the send-slot cooldown
setCSW_cooldownTTL(client, store, t, phone) ==
    IF ~client THEN store
    ELSE set(store, t, CSWKey(phone), RATE_LIMIT_EX)

\* setCSW(phoneNumberId, recipientPhone): the store afterwards
setCSW(client, store, t, phone) ==
    IF ~client THEN store
    ELSE set(store, t, CSWKey(phone), CSW_EX)

\* a caller about to send asks whether the pair's send slot is free
CheckSlot(p) ==
    /\ cpc[p] = "idle"
    /\ \E phone \in Peers :
         IF checkPairRateLimit(redisClient, redis, now, phone)
         THEN /\ cpc' = [cpc EXCEPT ![p] = "allowed"]
              /\ cpair' = [cpair EXCEPT ![p] = phone]
         ELSE UNCHANGED <<cpc, cpair>>
    /\ UNCHANGED <<campaign, cc, redisClient, redis, now, ticks, opened>>
    /\ UNCHANGED <<wvars, hvars, alerts>>

\* the caller that was allowed has sent and reserves the slot
ReserveSlot(p) ==
    /\ cpc[p] = "allowed"
    /\ redis' = setPairRateLimit(redisClient, redis, now, cpair[p])
    /\ cpc' = [cpc EXCEPT ![p] = "idle"]
    /\ cpair' = [cpair EXCEPT ![p] = NULL]
    /\ UNCHANGED <<campaign, cc, redisClient, now, ticks, opened>>
    /\ UNCHANGED <<wvars, hvars, alerts>>

\* the provider posts one incoming message of a recipient: the messages loop
\* writes a log line for it and POST answers 200
ReceiveInbound(h) ==
    /\ hpc[h] = "idle"
    /\ \A g \in 1..(h - 1) : hpc[g] # "idle"
    /\ \E from \in Peers :
         hev' = [hev EXCEPT ![h] = [body |-> "messages", id |-> NULL,
                                    status |-> "sent", code |-> NoCode,
                                    from |-> from]]
    /\ hpc' = [hpc EXCEPT ![h] = "done"]
    /\ hresp' = respond(hresp, h, hpc'[h])
    /\ UNCHANGED <<campaign, cc, hphone, hcnt>>
    /\ UNCHANGED <<wvars, svars, alerts>>

\* a caller opens the customer service window of a recipient
OpenWindow ==
    /\ \E phone \in Peers :
         /\ redis' = setCSW(redisClient, redis, now, phone)
         /\ opened' = [opened EXCEPT ![phone] = now]
    /\ UNCHANGED <<campaign, cc, redisClient, now, ticks, cpc, cpair>>
    /\ UNCHANGED <<wvars, hvars, alerts>>

\* time passes: to the second before the end of a cooldown, by one second,
\* or up to the cooldown before the end of a window; the store drops the
\* entries that expired
TickSteps == {1, RATE_LIMIT_EX - 1, CSW_EX - RATE_LIMIT_EX}

Tick ==
    /\ ticks < MaxTicks
    /\ \E d \in TickSteps :
         /\ now' = now + d
         /\ redis' = [k \in Keys |-> IF redis[k] > now + d THEN redis[k] ELSE 0]
    /\ ticks' = ticks + 1
    /\ UNCHANGED <<campaign, cc, redisClient, cpc, cpair, opened>>
    /\ UNCHANGED <<wvars, hvars, alerts>>

(* ------------------------- specifications ------------------------------ *)

\* no request has arrived
HandlersIdle ==
    /\ hpc = [h \in Handlers |-> "idle"]
    /\ hev = [h \in Handlers |->
                [body |-> "none", id |-> NULL, status |-> "sent", code |-> NoCode,
                 from |-> NULL]]
    /\ hresp = [h \in Handlers |-> 0]
    /\ hphone = [h \in Handlers |-> NULL]
    /\ hcnt = [h \in Handlers |-> 0]

\* an empty store at time 0, no caller active
StoreIdle ==
    /\ redis = NoKeys
    /\ now = 0
    /\ ticks = 0
    /\ cpc = [p \in Callers |-> "idle"]
    /\ cpair = [p \in Callers |-> NULL]
    /\ opened = [phone \in Phones |-> -1]

\* a campaign materialized from its recipient list, not yet dispatched
Init ==
    /\ campaign \in [status : {"Draft", "Scheduled"}, recipients : {0, NumContacts},
                     sent : {0}, delivered : {0}, read : {0}, failed : {0},
                     startedAt : {NULL}, completedAt : {NULL}]
    /\ cc = [c \in 1..campaign.recipients |->
                [status |-> "pending", message_id |-> NULL]]
    /\ alerts = {}
    /\ wf = WfIdle
    /\ runs = 0
    /\ nextMsg = 1
    /\ HandlersIdle
    /\ redisClient = TRUE
    /\ StoreIdle

WorkflowStep ==
    \/ Run
    \/ InitCampaign
    \/ CheckPaused
    \/ SendMessage
    \/ StoreResult
    \/ GetStats
    \/ PutStats
    \/ RetryBatch
    \/ GetFinal
    \/ PutFinal

Next ==
    \/ WorkflowStep
    \/ Pause
    \/ \E h \in 1..NumWfHandlers : Receive(h)
    \/ \E h \in 1..NumWfHandlers : HandlerStep(h)

Spec == Init /\ [][Next]_vars

\* the workflow and the dashboard alone, no receipt arrives
NextWorkflow ==
    \/ WorkflowStep
    \/ Pause

SpecWorkflow == Init /\ [][NextWorkflow]_vars

\* recipient lists of every length up to MaxList, up to the start of the
\* first send-batch step
InitPartition ==
    /\ campaign \in [status : {"Draft", "Scheduled"}, recipients : 0..MaxList,
                     sent : {0}, delivered : {0}, read : {0}, failed : {0},
                     startedAt : {NULL}, completedAt : {NULL}]
    /\ cc = [c \in 1..campaign.recipients |->
                [status |-> "pending", message_id |-> NULL]]
    /\ alerts = {}
    /\ wf = WfIdle
    /\ runs = 0
    /\ nextMsg = 1
    /\ HandlersIdle
    /\ redisClient = TRUE
    /\ StoreIdle

NextPartition ==
    \/ Run
    \/ InitCampaign

SpecPartition == InitPartition /\ [][NextPartition]_vars

\* a started run goes on: the code of a step runs to its end and the step
\* runner calls the next step; a re-execution of a step may or may not happen
RunProgress ==
    \/ InitCampaign
    \/ CheckPaused
    \/ SendMessage
    \/ StoreResult
    \/ GetStats
    \/ PutStats
    \/ GetFinal
    \/ PutFinal

\* one run of the workflow from its trigger on, with the dashboard
NextOneRun == NextWorkflow /\ runs' = 1

SpecOneRunFair ==
    Init /\ [][NextOneRun]_vars /\ WF_vars(RunProgress /\ runs' = 1)

\* A campaign after its first run, before any receipt: the sends to the first
\* k recipients were accepted (ids in the order of the list), the others were
\* rejected; the batch counters and the final status are written.
AfterFirstRun(k) ==
    LET stats == [status |-> "Sending", recipients |-> NumContacts,
                  sent |-> k, delivered |-> 0, read |-> 0,
                  failed |-> NumContacts - k, startedAt |-> 1,
                  completedAt |-> NULL]
    IN  /\ cc = [c \in Contacts |->
                   IF c <= k THEN [status |-> "sent", message_id |-> c]
                   ELSE [status |-> "failed", message_id |-> NULL]]
        /\ campaign = updateStatus(stats, [status |-> finalStatus(stats),
                                           completedAt |-> 1])
        /\ nextMsg = k + 1
        /\ wf = WfIdle
        /\ runs = 1

InitReceipts ==
    /\ \E k \in 0..Min(NumContacts, MaxMsg) : AfterFirstRun(k)
    /\ alerts = {}
    /\ HandlersIdle
    /\ redisClient = TRUE
    /\ StoreIdle

NextReceipts ==
    \/ \E h \in Handlers : Receive(h)
    \/ \E h \in Handlers : HandlerStep(h)

SpecReceipts == InitReceipts /\ [][NextReceipts]_vars

\* every request the webhook can get, and the clock
NextWebhook ==
    \/ \E h \in Handlers : Receive(h)
    \/ \E h \in Handlers : ReceiveCritical(h)
    \/ \E h \in Handlers : ReceiveOther(h)
    \/ \E h \in Handlers : HandlerStep(h)
    \/ \E h \in Handlers : UpsertAlert(h)
    \/ Tick

SpecWebhook == InitReceipts /\ [][NextWebhook]_vars

\* alert rows of earlier failures: an open and a dismissed payment alert
EarlierAlerts ==
    {alertRow(PaymentError, -1),
     [alertRow(PaymentError, -2) EXCEPT !.dismissed = TRUE]}

\* the database after the first run, with any of the earlier alerts
InitAlerts ==
    /\ \E k \in 0..Min(NumContacts, MaxMsg) : AfterFirstRun(k)
    /\ alerts \in SUBSET EarlierAlerts
    /\ HandlersIdle
    /\ redisClient = TRUE
    /\ StoreIdle

\* receipts of every status and error code, handled to the end
NextAlerts ==
    \/ \E h \in 1..NumWfHandlers : Receive(h)
    \/ \E h \in 1..NumWfHandlers : ReceiveCritical(h)
    \/ \E h \in 1..NumWfHandlers : HandlerStep(h)
    \/ \E h \in 1..NumWfHandlers : UpsertAlert(h)

SpecAlerts == InitAlerts /\ [][NextAlerts]_vars

\* POST handles one statusUpdate from the lookup to the counter update with
\* no other database client in between
ApplyReceipt ==
    \E ev \in [id : (1..(nextMsg - 1)) \cup {ForeignMsg}, status : ReceiptStatus] :
        LET d == applyStatusUpdate([cc |-> cc, campaign |-> campaign], ev)
        IN  /\ cc' = d.cc
            /\ campaign' = d.campaign
            /\ UNCHANGED <<wvars, hvars, svars, alerts>>

\* receipts one after the other
SpecSequential == InitReceipts /\ [][ApplyReceipt]_vars

\* the callers of the store helpers and the clock; the store is configured
\* or not for the whole behaviour
InitStore ==
    /\ AfterFirstRun(0)
    /\ alerts = {}
    /\ HandlersIdle
    /\ redisClient \in BOOLEAN
    /\ StoreIdle

\* concurrent callers of the send-slot helpers
NextSlots ==
    \/ \E p \in Callers : CheckSlot(p)
    \/ \E p \in Callers : ReserveSlot(p)
    \/ Tick

SpecSlots == InitStore /\ [][NextSlots]_vars

\* callers of the customer service window helpers
NextWindow ==
    \/ OpenWindow
    \/ Tick

SpecWindow == InitStore /\ [][NextWindow]_vars

\* callers of all four helpers at one instant, with and without a store
NextStore ==
    \/ \E p \in Callers : CheckSlot(p)
    \/ \E p \in Callers : ReserveSlot(p)
    \/ OpenWindow

SpecStore == InitStore /\ [][NextStore]_vars

\* incoming messages at the webhook next to the callers of the window helpers
NextInbound ==
    \/ \E h \in Handlers : ReceiveInbound(h)
    \/ OpenWindow
    \/ Tick

SpecInbound == InitStore /\ [][NextInbound]_vars

(* ============================ properties =============================== *)

MaxRepeat == 3          \* replays of one receipt

Database == [cc |-> cc, campaign |-> campaign]

\* every receipt the provider can post in the current state
Receipts == [id : (1..(nextMsg - 1)) \cup {ForeignMsg}, status : ReceiptStatus]

RECURSIVE applyTimes(_, _, _)
applyTimes(d, ev, n) ==
    IF n = 0 THEN d ELSE applyStatusUpdate(applyTimes(d, ev, n - 1), ev)

\* the statuses of the delivery records and the four counters
Observed(d) ==
    <<[c \in DOMAIN d.cc |-> d.cc[c].status],
      d.campaign.sent, d.campaign.delivered, d.campaign.read, d.campaign.failed>>

Quiescent == \A h \in Handlers : hpc[h] \in {"idle", "done"}

\* the row a receipt id matches now
RowOf(id) == single(MatchingRows(cc, id))

(* C1: Idempotence of the reconciler. In every reachable state, for every
   receipt e, applying e through the webhook handler n times in sequence
   (1 <= n <= MaxRepeat, nothing else in between) leaves the record statuses
   and the campaign counters as one application of e leaves them. *)
C1_Idempotent ==
    \A ev \in Receipts : \A n \in 1..MaxRepeat :
        Observed(applyTimes(Database, ev, n)) = Observed(applyTimes(Database, ev, 1))

\* a failed and a delivered receipt have been applied, and some failed
\* receipt still changes the database when applied once
C1_Witness ==
    /\ campaign.failed > campaign.recipients - campaign.sent
    /\ campaign.delivered > 0
    /\ \E ev \in Receipts : ev.status = "failed"
                             /\ Observed(applyStatusUpdate(Database, ev)) # Observed(Database)

\* the order of the claim: pending < sent < delivered < read
Ranked == {"pending", "sent", "delivered", "read"}

rank(s) ==
    CASE s = "pending" -> 0
      [] s = "sent" -> 1
      [] s = "delivered" -> 2
      [] s = "read" -> 3

(* C2: Monotonicity under out-of-order receipts. No step of a webhook handler
   moves a delivery record from one status of pending < sent < delivered <
   read to a lower one, and a handler of a delivered receipt that finds its
   record read changes neither the record nor any counter and does not go on
   to the counter increment. *)
C2_Monotonic ==
    [][ /\ \A c \in DOMAIN cc :
             ( /\ \E h \in Handlers : hpc'[h] # hpc[h]
               /\ cc[c].status \in Ranked
               /\ cc'[c].status \in Ranked )
             => rank(cc'[c].status) >= rank(cc[c].status)
        /\ \A h \in Handlers :
             ( /\ hpc[h] \in {"lookup", "contactInfo", "update"}
               /\ hev[h].status = "delivered"
               /\ RowOf(hev[h].id) # NULL
               /\ cc[RowOf(hev[h].id)].status = "read"
               /\ hpc'[h] # hpc[h] )
             => /\ cc' = cc
                /\ campaign' = campaign
                /\ hpc'[h] # "selectCounter"
      ]_vars

\* a delivered receipt was handled to the end, its record is read and only
\* the read was counted
C2_Witness ==
    \E h \in Handlers :
        /\ hpc[h] = "done"
        /\ hev[h].status = "delivered"
        /\ RowOf(hev[h].id) # NULL
        /\ cc[RowOf(hev[h].id)].status = "read"
        /\ campaign.read = 1
        /\ campaign.delivered = 0

\* h1 and h2 are the only invocations so far, both finished, both carried the
\* delivered receipt of the same campaign message
DuplicatePair(h1, h2) ==
    /\ h1 # h2
    /\ hpc[h1] = "done" /\ hpc[h2] = "done"
    /\ hev[h1] = hev[h2]
    /\ hev[h1].status = "delivered"
    /\ hev[h1].id \in 1..(nextMsg - 1)
    /\ \A h \in Handlers \ {h1, h2} : hpc[h] = "idle"

(* C3: No double counting. When two concurrent webhook invocations carry the
   delivered receipt of the same message (record sent, delivered counter 0
   before), then under every interleaving of their steps the delivered
   counter ends at exactly 1 and the record ends delivered. *)
C3_NoDoubleCount ==
    \A h1, h2 \in Handlers :
        DuplicatePair(h1, h2)
            => /\ campaign.delivered = 1
               /\ cc[RowOf(hev[h1].id)].status = "delivered"

C3_Witness ==
    \E h1, h2 \in Handlers : DuplicatePair(h1, h2) /\ campaign.delivered = 1

(* C4: No lost counter increment across recipients. When all webhook
   invocations have finished and all of them carried receipts of one status s
   (delivered, read or failed), the campaign counter of s equals the number
   of delivery records in status s: every record that moved to s is counted
   once. *)
C4_NoLostIncrement ==
    \A s \in {"delivered", "read", "failed"} :
        (Quiescent /\ \A h \in Handlers : hpc[h] = "done" => hev[h].status = s)
            => campaign[s] = Cardinality({c \in DOMAIN cc : cc[c].status = s})

(* C5: Campaign counter invariant, lower part. In every reachable state
   delivered + failed <= sent. *)
C5_DeliveredFailedLeSent ==
    campaign.delivered + campaign.failed <= campaign.sent

(* C6: Campaign counter invariant, upper part. In every reachable state
   sent <= totalRecipients, also when a send-batch step is executed again or
   the workflow is invoked again. *)
C6_SentLeTotal ==
    campaign.sent <= campaign.recipients

(* C7: Counters never decrease. No step lowers sent, delivered, read or
   failed of the campaign. *)
C7_CountersNeverDecrease ==
    [][ \A f \in {"sent", "delivered", "read", "failed"} :
            campaign'[f] >= campaign[f] ]_vars

(* C8: Resumability. In an invocation of the workflow after the first one,
   the send API is called only for a recipient whose delivery record is
   pending at that moment. *)
C8_ResumeSendsOnlyPending ==
    [][ (runs > 1 /\ wf.pc = "send" /\ wf'.pc = "store")
            => cc[CurContact].status = "pending" ]_vars

(* C9: Terminal status rule. The write of step complete-campaign sets the
   status to Failed exactly when the campaign it re-read has failed =
   totalRecipients and totalRecipients > 0, to Completed otherwise, and it
   sets completedAt. *)
C9_TerminalStatus ==
    [][ (wf.pc = "putFinal" /\ wf'.pc # "putFinal")
            => /\ campaign'.status \in {"Failed", "Completed"}
               /\ campaign'.status = "Failed"
                     <=> (wf.snap.failed = wf.snap.recipients /\ wf.snap.recipients > 0)
               /\ campaign'.completedAt # NULL ]_vars

\* a finished campaign whose recipients all failed
C9_Witness ==
    /\ wf.pc = "idle"
    /\ campaign.completedAt # NULL
    /\ campaign.status = "Failed"
    /\ campaign.failed = campaign.recipients
    /\ campaign.recipients > 0

(* C10: Pause is not finalization. Once the workflow has read status Paused
   at its checkpoint, it calls the send API no more, and as long as the
   status is Paused no step replaces it or sets completedAt (only a new
   invocation moves the campaign on). *)
C10_PauseNotFinal ==
    [][ /\ wf.sawPaused => ~(wf.pc = "send" /\ wf'.pc = "store")
        /\ (wf.sawPaused /\ campaign.status = "Paused")
             => /\ campaign'.status = "Paused"
                /\ campaign'.completedAt = campaign.completedAt ]_vars

(* C11: Start guard. Step init-campaign of an invocation that finds the
   campaign already Sending, Completed or Failed changes nothing of the
   campaign (status and startedAt stay) and the invocation ends there without
   sending: only a Draft or Scheduled campaign is moved to Sending. *)
C11_StartGuard ==
    [][ ( /\ wf.pc = "init"
          /\ wf'.pc # "init"
          /\ campaign.status \in {"Sending", "Completed", "Failed"} )
            => /\ campaign' = campaign
               /\ wf'.pc = "idle" ]_vars

(* C12: Rate limiting in the batch sender. The send loop calls the send API
   for a recipient only while checkPairRateLimit allows the pair (no live
   RateLimitKey), and once the result of a successful send is stored the
   pair's RateLimitKey is set, so that a second attempt on the same pair
   within the cooldown is skipped. *)
C12_SendRateLimited ==
    [][ /\ (wf.pc = "send" /\ wf'.pc = "store")
            => checkPairRateLimit(redisClient, redis, now, CurContact)
        /\ (wf.pc = "store" /\ wf.outcome = "ok" /\ wf'.pc # "store" /\ wf'.retries = wf.retries)
            => ~checkPairRateLimit(redisClient', redis', now', CurContact) ]_vars

(* C13: Atomic slot reservation. With the store configured, of the callers
   that asked for the send slot of one pair and have not yet reserved it, at
   most one was told it may send: check and reservation are one atomic
   set-if-absent. *)
C13_OneSlotHolder ==
    redisClient =>
        \A p, q \in Callers :
            (cpc[p] = "allowed" /\ cpc[q] = "allowed" /\ cpair[p] = cpair[q])
                => p = q

(* C14: Unconditional acknowledgment. Every invocation of the webhook POST
   handler that has ended answered with HTTP status 200, whatever the request
   body was. *)
C14_AlwaysAcknowledged ==
    \A h \in Handlers : hpc[h] = "done" => hresp[h] = 200

\* 24 hours, in seconds
Day == 24 * 60 * 60

\* setCSW was called for the recipient and less than 24 hours have passed
\* since its latest call
OpenedWithinDay(phone) == opened[phone] >= 0 /\ now - opened[phone] < Day

(* C15 as stated: Session window lifetime. For every recipient, checkCSW
   answers true exactly when setCSW was called for that recipient and less
   than 24 hours have passed since the latest call; it answers false after
   that and when setCSW was never called, whatever happened to the windows of
   other recipients. *)
C15_WindowLifetimeAlways ==
    \A phone \in Phones :
        checkCSW(redisClient, redis, now, phone) <=> OpenedWithinDay(phone)

(* C15 amended: Session window lifetime with a configured store. When the
   key-value store is configured, for every recipient checkCSW answers true
   exactly when setCSW was called for that recipient and less than 24 hours
   have passed since the latest call, independently of the other recipients. *)
C15_WindowLifetime ==
    redisClient =>
        \A phone \in Phones :
            checkCSW(redisClient, redis, now, phone) <=> OpenedWithinDay(phone)

\* with a configured store, one recipient's window has run out after 24
\* hours while the window of another, opened later, is still open
C15_Witness ==
    /\ redisClient
    /\ \E p1, p2 \in Phones :
         /\ opened[p1] >= 0
         /\ now - opened[p1] >= Day
         /\ ~checkCSW(redisClient, redis, now, p1)
         /\ opened[p2] > opened[p1]
         /\ checkCSW(redisClient, redis, now, p2)

\* The record of invocation h, about to be updated, is certainly not in the
\* status h read at its lookup: the guard let h pass only with a stored status
\* of lower rank than its own (pending or sent for a delivered receipt, up to
\* delivered for a read receipt).
ChangedSinceLookup(h) ==
    \/ hev[h].status = "delivered"
           /\ cc[hphone[h]].status \in {"delivered", "read", "failed"}
    \/ hev[h].status = "read"
           /\ cc[hphone[h]].status \in {"read", "failed"}

(* C16: Compare-and-set on the status read. When another handler changed a
   delivery record between an invocation's lookup and its status update (for
   example a failed receipt applied while a delivered or read receipt is in
   flight), the later update affects no row: the stored status stays as it is
   and the invocation ends without incrementing a counter. *)
C16_CompareAndSet ==
    [][ \A h \in Handlers :
            (hpc[h] = "update" /\ hpc'[h] # "update" /\ ChangedSinceLookup(h))
                => /\ cc' = cc
                   /\ hpc'[h] = "done" ]_vars

(* C17: The batch counter update does not lose concurrent increments. The
   counter write of a send-batch step leaves failed at the value stored just
   before the write plus the step's failedCount, so that an increment a
   webhook handler made after the step read the campaign is kept. *)
C17_BatchKeepsIncrements ==
    [][ (wf.pc = "putStats" /\ wf'.pc # "putStats" /\ wf'.retries = wf.retries)
            => campaign'.failed = campaign.failed + wf.failedCount ]_vars

(* C18: The batch sender writes only pending records. Whenever the send loop
   stores the outcome of a send (sent with the message id, or failed), the
   recipient's delivery record is pending just before the write; a record
   already sent, delivered, read or failed is never overwritten. *)
C18_SenderWritesOnlyPending ==
    [][ (wf.pc = "store" /\ wf'.pc # "store" /\ wf'.retries = wf.retries)
            => cc[CurContact].status = "pending" ]_vars

\* recipients the current execution of the send-batch step has attempted
Attempted == wf.sentCount + wf.failedCount

(* C19 as stated: Pause is observed only between batches. A send-batch step
   that has attempted a recipient attempts every recipient of its batch
   before it goes on to its counter update, also when the campaign is paused
   while the batch is running. *)
C19_BatchRunsToEnd ==
    (wf.pc \in {"getStats", "putStats"} /\ Attempted > 0)
        => Attempted = Len(batches[wf.batchIndex])

(* C19 amended: Pause is observed before every recipient. The send loop reads
   the campaign status before each send, also inside a batch: it calls the
   send API only after a read that is not Paused, a read of Paused ends the
   loop of the step without an attempt on that recipient, and after it the
   invocation calls the send API no more. *)
C19_PauseBeforeEachRecipient ==
    [][ /\ (wf.pc = "check" /\ wf'.pc = "send") => campaign.status # "Paused"
        /\ (wf.pc = "check" /\ wf'.pc # "check" /\ campaign.status = "Paused")
              => /\ wf'.pc = "getStats"
                 /\ wf'.idx = wf.idx
                 /\ wf'.sentCount = wf.sentCount
                 /\ wf'.failedCount = wf.failedCount
                 /\ cc' = cc
                 /\ nextMsg' = nextMsg
        /\ wf.sawPaused => ~(wf.pc = "send" /\ wf'.pc = "store") ]_vars

\* the pause was read before the second recipient of a batch: the first one
\* was attempted, the second is still pending
C19_Witness ==
    /\ wf.sawPaused
    /\ wf.pc = "getStats"
    /\ wf.idx = 2
    /\ Attempted = 1
    /\ cc[CurContact].status = "pending"

\* every request so far carried the same failed receipt with a critical
\* error code (the receipt and its replays)
OnlyReplaysOfOneCritical ==
    /\ \A h, g \in Handlers : (hpc[h] # "idle" /\ hpc[g] # "idle") => hev[h] = hev[g]
    /\ \A h \in Handlers :
         hpc[h] # "idle" => /\ hev[h].body = "statuses"
                            /\ hev[h].status = "failed"
                            /\ isCriticalError(hev[h].code)

(* C20: Deduplicated critical alert. However often one failed receipt with a
   critical error code is received (the receipt and replays of the same
   message id and error code, nothing else), table account_alerts holds at
   most one alert row for it. *)
C20_OneAlertPerReceipt ==
    OnlyReplaysOfOneCritical => Cardinality(alerts) <= 1

(* C21: Foreign receipts are ignored. A webhook invocation whose receipt
   matches no delivery record ends at its lookup and its steps leave every
   delivery record, every campaign column and the alert rows unchanged,
   whatever the status of the receipt (failed with a critical error code
   included). *)
C21_ForeignIgnored ==
    [][ \A h \in Handlers :
            ( /\ hpc[h] # "idle"
              /\ hpc'[h] # hpc[h]
              /\ hev[h].body = "statuses"
              /\ RowOf(hev[h].id) = NULL )
                => /\ hpc'[h] = "done"
                   /\ cc' = cc
                   /\ campaign' = campaign
                   /\ alerts' = alerts ]_vars

\* a failed receipt with a critical error code that matched no record was
\* handled to the end while an alert row of an earlier failure exists
C21_Witness ==
    \E h \in Handlers :
        /\ hpc[h] = "done"
        /\ hev[h].status = "failed"
        /\ isCriticalError(hev[h].code)
        /\ RowOf(hev[h].id) = NULL
        /\ hresp[h] = 200
        /\ alerts # {}

\* the sender holds the outcome of a rejected or throwing send
SendFailed == wf.pc = "store" /\ wf.outcome \in {"rejected", "threw"}

(* C22: Per-recipient failure isolation. The step that stores a rejected or
   throwing send writes failed on the record of that recipient and on no
   other record, adds exactly 1 to failedCount and nothing to sentCount, and
   goes on with the next recipient of the batch (or with the counters of the
   batch after the last one) without sending to the same recipient again;
   after it the run always reaches the complete-campaign step. *)
C22_FailureIsolated ==
    /\ [][ ( /\ SendFailed
             /\ wf' # wf
             /\ wf'.retries = wf.retries )
               => /\ cc'[CurContact].status = "failed"
                  /\ \A c \in DOMAIN cc : c # CurContact => cc'[c] = cc[c]
                  /\ campaign' = campaign
                  /\ wf'.failedCount = wf.failedCount + 1
                  /\ wf'.sentCount = wf.sentCount
                  /\ wf'.batchIndex = wf.batchIndex
                  /\ IF wf.idx < Len(batches[wf.batchIndex])
                     THEN wf'.pc = "check" /\ wf'.idx = wf.idx + 1
                     ELSE wf'.pc = "getStats" ]_vars
    /\ (SendFailed ~> wf.pc = "getFinal")

\* the first send of a batch failed and the second one was accepted; the
\* run is at complete-campaign
C22_Witness ==
    /\ wf.pc = "getFinal"
    /\ wf.retries = 0
    /\ Len(batches) >= 1
    /\ Len(batches[1]) >= 2
    /\ cc[batches[1][1]].status = "failed"
    /\ cc[batches[1][2]].status = "sent"
    /\ campaign.failed >= 1
    /\ campaign.sent >= 1

\* handler h is past a conditional update that changed a row
MovedRecord(h) ==
    hpc[h] \in {"selectCounter", "updateCounter", "dismiss", "alert"}

(* C23: Payment alerts auto-clear on delivery. When the handler of a
   delivered receipt whose conditional update changed the record finishes,
   no payment alert is left undismissed. *)
C23_AlertsCleared ==
    [][ \A h \in Handlers :
            ( /\ hev[h].status = "delivered"
              /\ MovedRecord(h)
              /\ hpc'[h] = "done" )
                => \A a \in alerts' : a.type = "payment" => a.dismissed ]_vars

\* a delivered receipt moved its record to delivered and the payment alert
\* that was open before is dismissed
C23_Witness ==
    \E h \in Handlers :
        /\ hpc[h] = "done"
        /\ hev[h].status = "delivered"
        /\ RowOf(hev[h].id) # NULL
        /\ cc[RowOf(hev[h].id)].status = "delivered"
        /\ campaign.delivered = 1
        /\ alertRow(PaymentError, -1) \notin alerts
        /\ [alertRow(PaymentError, -1) EXCEPT !.dismissed = TRUE] \in alerts

(* C24: Inbound messages open the session window. With the store available,
   right after the webhook has processed an incoming message of a recipient
   the customer service window of that recipient is open. *)
C24_InboundOpensWindow ==
    [][ \A h \in Handlers :
            ( /\ redisClient
              /\ hpc[h] = "idle"
              /\ hpc'[h] = "done"
              /\ hev'[h].body = "messages" )
                => checkCSW(redisClient', redis', now', hev'[h].from) ]_vars

\* the batch size of the source; the runs of the model send in batches of
\* BATCH_SIZE
SOURCE_BATCH_SIZE == 40

RECURSIVE concat(_)
concat(seqs) ==
    IF seqs = <<>> THEN <<>> ELSE Head(seqs) \o concat(Tail(seqs))

\* b is the split of list into consecutive slices of size elements, the last
\* one with what is left
IsPartition(b, list, size) ==
    /\ \A k \in 1..(Len(b) - 1) : Len(b[k]) = size
    /\ Len(b) > 0 => /\ Len(b[Len(b)]) \in 1..size
                     /\ Len(b[Len(b)]) = Len(list) - size * (Len(b) - 1)
    /\ concat(b) = list
    /\ list = <<>> => b = <<>>

(* C25: Batch partition. The recipient list is split into consecutive
   batches of exactly the batch size, the last batch holds the remainder,
   the batches put together in order give the list again, and an empty list
   gives no batch; for the batch size of the source and for the one of the
   model's runs. *)
C25_BatchPartition ==
    /\ IsPartition(partition(contacts, SOURCE_BATCH_SIZE), contacts,
                   SOURCE_BATCH_SIZE)
    /\ IsPartition(batches, contacts, BATCH_SIZE)

\* init-campaign has run for a list of two full batches of the source's
\* size and a remainder
C25_Witness ==
    /\ wf.pc = "check"
    /\ Len(contacts) > 2 * SOURCE_BATCH_SIZE
    /\ Len(partition(contacts, SOURCE_BATCH_SIZE)) = 3
    /\ Len(partition(contacts, SOURCE_BATCH_SIZE)[3]) =
           Len(contacts) - 2 * SOURCE_BATCH_SIZE

\* contents a store can have at time t: each entry absent, live or expired
StoresAt(t) == [Keys -> {0, t, t + RATE_LIMIT_EX}]

(* C26: Degradation without store. When no store client is configured,
   checkPairRateLimit answers true and checkCSW answers false for every
   recipient whatever a store would hold, setPairRateLimit and setCSW leave
   the store as it is, and no step of a caller changes the store or is
   refused. *)
C26_DegradesWithoutStore ==
    /\ [](~redisClient =>
            \A phone \in Phones, store \in StoresAt(now) :
                /\ checkPairRateLimit(redisClient, store, now, phone) = TRUE
                /\ checkCSW(redisClient, store, now, phone) = FALSE
                /\ setPairRateLimit(redisClient, store, now, phone) = store
                /\ setCSW(redisClient, store, now, phone) = store)
    /\ [][~redisClient => redis' = redis]_vars
    /\ [](~redisClient => \A p \in Callers : cpc[p] = "idle" => ENABLED CheckSlot(p))

\* without a store client a caller was allowed to send to a recipient for
\* whom another caller was allowed too, and a window was opened, while
\* the store holds nothing
C26_Witness ==
    /\ ~redisClient
    /\ \E p, q \in Callers :
          /\ p # q
          /\ cpc[p] = "allowed"
          /\ cpc[q] = "allowed"
          /\ cpair[p] = cpair[q]
    /\ \E phone \in Peers : opened[phone] = now
    /\ redis = NoKeys

(* C27: Failed is absorbing for receipts. When the lookup of a handler finds
   the record of its receipt with the stored status failed and the receipt
   is sent, delivered or read, the handler ends there: the status stays
   failed and no counter and no alert row is changed. *)
C27_FailedAbsorbing ==
    [][ \A h \in Handlers :
            ( /\ hpc[h] = "lookup"
              /\ hpc'[h] # "lookup"
              /\ RowOf(hev[h].id) # NULL
              /\ cc[RowOf(hev[h].id)].status = "failed"
              /\ hev[h].status \in {"sent", "delivered", "read"} )
                => /\ hpc'[h] = "done"
                   /\ cc' = cc
                   /\ campaign' = campaign
                   /\ alerts' = alerts ]_vars

\* a failed receipt and then a delivered receipt of the same message were
\* handled: the record is failed and nothing is counted as delivered
C27_Witness ==
    \E g, h \in Handlers :
        /\ g < h
        /\ hpc[g] = "done"
        /\ hpc[h] = "done"
        /\ hev[g].status = "failed"
        /\ hev[h].status = "delivered"
        /\ hev[g].id = hev[h].id
        /\ RowOf(hev[h].id) # NULL
        /\ cc[RowOf(hev[h].id)].status = "failed"
        /\ campaign.delivered = 0
        /\ hcnt[h] = 0

(* C28: Receipt delivery is not lost to a race with the sender. When the
   run has ended and the webhook has finished the delivered receipt of a
   message whose id is stored on a delivery record, that record is
   delivered (or beyond) and the campaign counts a delivery. *)
C28_ReceiptNotLost ==
    (wf.pc = "idle" /\ Quiescent) =>
        \A h \in Handlers :
            ( /\ hpc[h] = "done"
              /\ hev[h].body = "statuses"
              /\ hev[h].status = "delivered"
              /\ RowOf(hev[h].id) # NULL )
                => /\ cc[RowOf(hev[h].id)].status \in {"delivered", "read", "failed"}
                   /\ campaign.delivered >= 1

\* the columns of campaigns the webhook counts in
ReceiptCounters == {"delivered", "read", "failed"}

(* C29: Reconciler frame. A step of the handler of a receipt changes no
   delivery record but the one the receipt's message id matches (and of that
   one not the message id), no column of the campaign but the counter of the
   receipt's status among delivered, read and failed, and besides these only
   alert rows: status, sent, recipients, startedAt and completedAt of the
   campaign stay as they are. *)
C29_ReconcilerFrame ==
    [][ \A h \in Handlers :
            hpc'[h] # hpc[h]
                => /\ DOMAIN cc' = DOMAIN cc
                   /\ \A c \in DOMAIN cc :
                         cc'[c] # cc[c]
                             => /\ cc[c].message_id = hev'[h].id
                                /\ cc'[c].message_id = cc[c].message_id
                   /\ \A col \in DOMAIN campaign :
                         campaign'[col] # campaign[col]
                             => /\ col \in ReceiptCounters
                                /\ col = hev'[h].status ]_vars

\* a failed receipt with a critical error code was handled to the end: its
\* record is failed, the failure is counted and the alert row is there
C29_Witness ==
    \E h \in Handlers :
        /\ hpc[h] = "done"
        /\ hev[h].status = "failed"
        /\ RowOf(hev[h].id) # NULL
        /\ cc[RowOf(hev[h].id)].status = "failed"
        /\ campaign.failed = campaign.recipients - campaign.sent + 1
        /\ alertRow(hev[h].code, now) \in alerts
        /\ campaign.status = "Completed"

(* C30, as stated: Read never exceeds delivered. In every reachable state
   the read counter of the campaign is at most its delivered counter. *)
C30_ReadNeverExceedsDelivered == campaign.read <= campaign.delivered

(* C30, amended: a read receipt counts in the read counter alone. The
   lookup of a read receipt that finds its record sent or delivered lets the
   receipt through, the counter update of a read receipt adds 1 to the read
   counter it selected, and no step of the handler of a read receipt changes
   the delivered counter; so a recipient whose read receipt is handled
   before its delivered receipt is counted as read and not as delivered. *)
C30_ReadCountsAlone ==
    [][ \A h \in Handlers :
            (hpc'[h] # hpc[h] /\ hev'[h].status = "read")
                => /\ campaign'.delivered = campaign.delivered
                   /\ ( /\ hpc[h] = "lookup"
                        /\ RowOf(hev[h].id) # NULL
                        /\ cc[RowOf(hev[h].id)].status \in {"sent", "delivered"} )
                          => hpc'[h] = "contactInfo"
                   /\ hpc[h] = "updateCounter"
                          => campaign'.read = hcnt[h] + 1 ]_vars

\* the read receipt of a message was handled to the end and no delivered
\* receipt has arrived: one read is counted and no delivery
C30_Witness ==
    /\ \E h \in Handlers :
          /\ hpc[h] = "done"
          /\ hev[h].status = "read"
          /\ RowOf(hev[h].id) # NULL
          /\ cc[RowOf(hev[h].id)].status = "read"
    /\ \A g \in Handlers : hpc[g] # "idle" => hev[g].status # "delivered"
    /\ campaign.read = 1
    /\ campaign.delivered = 0

====
